---- MODULE Spec2Model ----
(***************************************************************************)
(* NeoBreath PET preprocessing: the depth trimmer, the DICOM slice loader, *)
(* the intensity converter and the batch driver, each as a state machine   *)
(* with its own specification over one shared set of variables.            *)
(***************************************************************************)
EXTENDS Integers, Sequences, FiniteSets, TLC

VARIABLES
    \* ---- VolumeProcessor.trim_volume_by_threshold ----
    volume,          \* per-slice mean of input_array, a function 0..depth-1 -> Nat
    thr,             \* intensity_threshold as the fraction <<numerator, denominator>>
    min_slices_to_keep,
    max_mode,
    start_idx,
    end_idx,
    trimmed,         \* the returned sub-volume, as the sequence of input depth indices
    tpc,             \* position in trim_volume_by_threshold
    \* ---- DicomConverter.to_2d_array ----
    files,           \* the discovered .dcm files, in discovery order
    fidx,            \* number of files the loop has consumed
    slices,          \* the list `slices` of (z_pos, file index)
    loaded,          \* the returned list (file indices)
    lpc,
    \* ---- IntensityProcessor.convert ----
    inslices,        \* self.slices: (image, metadata) pairs
    normalize,       \* self.normalize
    converted_slices,
    cpc,
    \* ---- main / preprocess_pet_patient_data ----
    studies,         \* patient directories in iteration order
    ti,              \* index into threshold_values
    si,              \* index of the next study
    saved,           \* .npy artifacts written: <<threshold, study index>>
    attempted,       \* studies handed to preprocess_pet_patient_data
    mpc,
    \* ---- the shared 'PreprocessingLogger' ----
    log              \* sequence of [level, msg, of]

tvars == <<volume, thr, min_slices_to_keep, max_mode, start_idx, end_idx, trimmed, tpc>>
lvars == <<files, fidx, slices, loaded, lpc>>
cvars == <<inslices, normalize, converted_slices, cpc>>
mvars == <<studies, ti, si, saved, attempted, mpc>>
vars == <<tvars, lvars, cvars, mvars, log>>

Entry(level, msg, of) == [level |-> level, msg |-> msg, of |-> of]

Min2(a, b) == IF a <= b THEN a ELSE b
Max2(a, b) == IF a >= b THEN a ELSE b

\* ---------------------------------------------------------------- bounds
MaxDepth == 4
MaxMean == 2
MaxMinSlices == 5
ThrDen == 2
MaxZ == 2
MaxFiles == 3
MaxWeight == 2
MaxDose == 2
MaxPixel == 2
MaxSlices == 3
MaxStudies == 2

\* ------------------------------------------------- idle parts of the state
TrimIdle ==
    /\ volume = <<>> /\ thr = <<0, 1>> /\ min_slices_to_keep = 0
    /\ max_mode = TRUE /\ start_idx = 0 /\ end_idx = 0
    /\ trimmed = <<>> /\ tpc = "idle"
LoadIdle ==
    /\ files = <<>> /\ fidx = 0 /\ slices = <<>> /\ loaded = <<>> /\ lpc = "idle"
ConvertIdle ==
    /\ inslices = <<>> /\ normalize = FALSE /\ converted_slices = <<>>
    /\ cpc = "idle"
MainIdle ==
    /\ studies = <<>> /\ ti = 0 /\ si = 0 /\ saved = {} /\ attempted = <<>>
    /\ mpc = "idle"

\* ======================================================================
\* VolumeProcessor.trim_volume_by_threshold
\* ======================================================================
Depth(v) == Cardinality(DOMAIN v)

SetMin(S) == CHOOSE x \in S : \A y \in S : x <= y
SetMax(S) == CHOOSE x \in S : \A y \in S : x >= y

MeanMin(v) == SetMin({v[i] : i \in DOMAIN v})
MeanMax(v) == SetMax({v[i] : i \in DOMAIN v})

\* 1e-8, the epsilon of the normalisation, is 1 / EpsInv.
EpsInv == 100000000

\* normalized_intensities[i] >= intensity_threshold, in exact arithmetic.
\* With t = thr[1]/thr[2], R = max - min > 0 and eps = 1/EpsInv:
\*   (v[i]-min)/(R+eps) >= t  <=>  ((v[i]-min)*thr[2] - thr[1]*R) * EpsInv >= thr[1].
\* The left factor is an integer and |thr[1]| < EpsInv, so the product is
\* compared by the sign of that factor (avoiding a 32-bit overflow).
\* When max = min the normalised value is 1 (np.ones_like).
NormGeq(v, i, t) ==
    IF MeanMax(v) > MeanMin(v)
    THEN LET d == (v[i] - MeanMin(v)) * t[2] - t[1] * (MeanMax(v) - MeanMin(v))
         IN  IF d > 0 THEN EpsInv >= t[1]
             ELSE IF d = 0 THEN 0 >= t[1]
             ELSE (0 - EpsInv) >= t[1]
    ELSE t[2] >= t[1]

\* The test of the mode: >= threshold when max_mode, < threshold otherwise.
Passes(v, i, t, mode) == IF mode THEN NormGeq(v, i, t) ELSE ~NormGeq(v, i, t)

\* for i in range(depth): if test: start_idx = i; break   (start_idx = 0 before)
RECURSIVE ScanUp(_, _, _, _)
ScanUp(v, i, t, mode) ==
    IF i >= Depth(v) THEN 0
    ELSE IF Passes(v, i, t, mode) THEN i
    ELSE ScanUp(v, i + 1, t, mode)

\* for i in range(depth-1, -1, -1): if test: end_idx = i; break  (depth-1 before)
RECURSIVE ScanDown(_, _, _, _)
ScanDown(v, i, t, mode) ==
    IF i < 0 THEN Depth(v) - 1
    ELSE IF Passes(v, i, t, mode) THEN i
    ELSE ScanDown(v, i - 1, t, mode)

FindStart(v, t, mode) == ScanUp(v, 0, t, mode)

\* A backward scan that starts one slice too early: range(depth - 2, -1, -1).
FindEndFromSecondLast(v, t, mode) == ScanDown(v, Depth(v) - 2, t, mode)

FindEnd(v, t, mode) == ScanDown(v, Depth(v) - 1, t, mode)

\* A re-centring that omits the clamp of the start index at 0:
\* start_idx = center - half_min.
RecentreUnclamped(s, e, m, depth) ==
    LET center == (s + e) \div 2
        half_min == m \div 2
        ns == center - half_min
    IN  <<ns, Min2(depth - 1, ns + m - 1)>>

\* Lines 85-88: the re-centred range <<start, end>>.
Recentre(s, e, m, depth) ==
    LET center == (s + e) \div 2
        half_min == m \div 2
        ns == Max2(0, center - half_min)
    IN  <<ns, Min2(depth - 1, ns + m - 1)>>

\* volume[start_idx:end_idx + 1] of a volume of the given depth, as indices.
\* Python clips the slice bounds to the array; an inverted range is empty.
SliceRange(s, e, depth) ==
    LET lo == Max2(0, s)
        hi == Min2(depth - 1, e)
    IN  [k \in 1..Max2(0, hi - lo + 1) |-> lo + k - 1]

Volumes == UNION {[0..(d - 1) -> 0..MaxMean] : d \in 1..MaxDepth}
Thresholds == {<<p, ThrDen>> : p \in (0 - 1)..(ThrDen + 1)}

\* The scenario of depth 10 with per-slice means rising linearly from 0 to 1.
LinearVolume == [i \in 0..9 |-> i]
Half == <<1, 2>>

TrimInit ==
    /\ \/ /\ volume \in Volumes
          /\ thr \in Thresholds
          /\ min_slices_to_keep \in 1..MaxMinSlices
       \/ /\ volume = LinearVolume
          /\ thr = Half
          /\ min_slices_to_keep = 2
    /\ max_mode \in BOOLEAN
    /\ start_idx = 0 /\ end_idx = 0 /\ trimmed = <<>>
    /\ tpc = "scan"
    /\ LoadIdle /\ ConvertIdle /\ MainIdle
    /\ log = <<>>

\* Lines 36-78: per-slice means, normalisation and the two scans.
TrimScan ==
    /\ tpc = "scan"
    /\ start_idx' = FindStart(volume, thr, max_mode)
    /\ end_idx' = FindEnd(volume, thr, max_mode)
    /\ tpc' = "ensure"
    /\ UNCHANGED <<volume, thr, min_slices_to_keep, max_mode, trimmed>>
    /\ UNCHANGED <<lvars, cvars, mvars, log>>

\* Lines 80-89: ensure the minimum number of slices.
TrimEnsureMin ==
    /\ tpc = "ensure"
    /\ IF end_idx - start_idx + 1 < min_slices_to_keep
       THEN /\ start_idx' = Recentre(start_idx, end_idx, min_slices_to_keep, Depth(volume))[1]
            /\ end_idx' = Recentre(start_idx, end_idx, min_slices_to_keep, Depth(volume))[2]
            /\ log' = Append(log, Entry("info", "expanded", 0))
       ELSE UNCHANGED <<start_idx, end_idx, log>>
    /\ tpc' = "slice"
    /\ UNCHANGED <<volume, thr, min_slices_to_keep, max_mode, trimmed>>
    /\ UNCHANGED <<lvars, cvars, mvars>>

\* Lines 91-93: trim the volume and return it.
TrimReturn ==
    /\ tpc = "slice"
    /\ trimmed' = SliceRange(start_idx, end_idx, Depth(volume))
    /\ tpc' = "done"
    /\ UNCHANGED <<volume, thr, min_slices_to_keep, max_mode, start_idx, end_idx>>
    /\ UNCHANGED <<lvars, cvars, mvars, log>>

TrimNext == TrimScan \/ TrimEnsureMin \/ TrimReturn

SpecTrim == TrimInit /\ [][TrimNext]_vars

\* ------------------------------------------------------ trimmer properties
WholeVolume(v) == [k \in 1..Depth(v) |-> k - 1]
Span(s, e) == [k \in 1..(e - s + 1) |-> s + k - 1]
PassSet == {i \in DOMAIN volume : Passes(volume, i, thr, max_mode)}
FirstPass == IF PassSet = {} THEN 0 ELSE SetMin(PassSet)
LastPass == IF PassSet = {} THEN Depth(volume) - 1 ELSE SetMax(PassSet)

\* C1: whenever depth >= min_slices_to_keep >= 1, the returned sub-volume has
\* at least min_slices_to_keep depth-slices (the start index being extended
\* downward when the re-centred range is clamped at depth-1).
C1_AtLeastMinSlices ==
    (tpc = "done" /\ Depth(volume) >= min_slices_to_keep)
        => Len(trimmed) >= min_slices_to_keep

\* C2: whenever depth < min_slices_to_keep, the returned sub-volume is the
\* full input: indices 0..depth-1 in their original order.
C2_ShortVolumeReturnedWhole ==
    (tpc = "done" /\ Depth(volume) < min_slices_to_keep)
        => trimmed = WholeVolume(volume)

\* C8: whenever the range found by the scans is at least min_slices_to_keep
\* long, the result is exactly the inclusive range from the smallest to the
\* largest depth index passing the mode's test (0..depth-1 when none passes);
\* on the linear depth-10 volume with threshold 0.5 and min_slices 2,
\* keep-above returns 5..9 and keep-below returns 0..4.
C8_ExactPassingRange ==
    tpc = "done" =>
        /\ (LastPass - FirstPass + 1 >= min_slices_to_keep
                => trimmed = Span(FirstPass, LastPass))
        /\ (volume = LinearVolume /\ thr = Half /\ min_slices_to_keep = 2
                => trimmed = IF max_mode THEN <<5, 6, 7, 8, 9>>
                                         ELSE <<0, 1, 2, 3, 4>>)

\* C11: for every depth >= 1, threshold, mode and min_slices_to_keep >= 1, the
\* indices satisfy 0 <= start_idx <= end_idx <= depth-1 right after the two
\* scans and after the minimum-length re-centring, so the range is never
\* inverted and the returned sub-volume is never empty.
C11_IndicesOrderedInBounds ==
    /\ tpc \in {"ensure", "slice", "done"} =>
          /\ 0 <= start_idx
          /\ start_idx <= end_idx
          /\ end_idx <= Depth(volume) - 1
    /\ tpc = "done" => trimmed # <<>>

\* C11 witness: the re-centring has acted on a range shorter than the minimum,
\* moved the start index and clamped the end index at depth-1, and the
\* sub-volume has been returned.
C11_Witness ==
    /\ tpc = "done"
    /\ log = <<Entry("info", "expanded", 0)>>
    /\ start_idx > 0
    /\ start_idx # FindStart(volume, thr, max_mode)
    /\ end_idx = Depth(volume) - 1
    /\ Len(trimmed) < min_slices_to_keep

\* C8 witness: the linear scenario has been trimmed in keep-below mode, the
\* found range being longer than the minimum.
C8_Witness ==
    /\ tpc = "done" /\ volume = LinearVolume /\ thr = Half /\ ~max_mode
    /\ min_slices_to_keep = 2
    /\ trimmed = <<0, 1, 2, 3, 4>>

\* ======================================================================
\* DicomConverter.to_2d_array and DicomConverter._get_z_position
\* ======================================================================
\* A discovered file: whether dcmread and ds.pixel_array succeed, and its
\* three position fields.  A field is <<kind, value>>: <<"num", n>> for a
\* number n, or <<kind, 0>> with kind one of
\*   "missing"   the attribute is absent (hasattr is False)
\*   "empty"     ImagePositionPatient is falsy (None or empty)
\*   "short"     ImagePositionPatient has fewer than three components (IndexError)
\*   "none"      the value is None (float(None) is a TypeError)
\*   "badtype"   the value is of a type float() rejects (TypeError)
\*   "malformed" the value is a non-numeric string (float() raises ValueError)
Num(n) == <<"num", n>>
Absent(kind) == <<kind, 0>>
Kind(x) == x[1]
Val(x) == x[2]
IsNum(x) == Kind(x) = "num"

ZValues == {Num(n) : n \in 0..MaxZ}
IppValues == {Absent(k) : k \in {"missing", "empty", "short", "none", "malformed"}} \cup ZValues
SlValues == {Absent(k) : k \in {"missing", "none", "badtype", "malformed"}} \cup ZValues
InValues == {Absent(k) : k \in {"missing", "none", "malformed"}} \cup ZValues

Resolved(z, warn) == [raised |-> FALSE, z |-> z, warn |-> warn]
Raised == [raised |-> TRUE, z |-> 0, warn |-> FALSE]

\* Lines 104-114: InstanceNumber, then the literal 0.0 with a warning.
\* float(None) is a TypeError (caught); float of a non-numeric string is a
\* ValueError, which the except clause does not name.
ZFromInstanceNumber(ds) ==
    IF Kind(ds.inum) = "missing" THEN Resolved(0, TRUE)
    ELSE IF Kind(ds.inum) = "none" THEN Resolved(0, TRUE)
    ELSE IF Kind(ds.inum) = "malformed" THEN Raised
    ELSE Resolved(Val(ds.inum), FALSE)

\* Lines 96-102: SliceLocation when present and not None.
ZFromSliceLocation(ds) ==
    IF Kind(ds.sl) \in {"missing", "none"} THEN ZFromInstanceNumber(ds)
    ELSE IF Kind(ds.sl) = "badtype" THEN ZFromInstanceNumber(ds)
    ELSE IF Kind(ds.sl) = "malformed" THEN Raised
    ELSE Resolved(Val(ds.sl), FALSE)

\* Lines 88-94, then the fallbacks: _get_z_position.
GetZPosition(ds) ==
    IF Kind(ds.ipp) \in {"missing", "empty"} THEN ZFromSliceLocation(ds)
    ELSE IF Kind(ds.ipp) \in {"short", "none"} THEN ZFromSliceLocation(ds)
    ELSE IF Kind(ds.ipp) = "malformed" THEN Raised
    ELSE Resolved(Val(ds.ipp), FALSE)

\* slices.sort(key=lambda x: x[0]): a stable sort, as an insertion sort that
\* places each element after the elements whose key is not greater.
RECURSIVE InsertByZ(_, _)
InsertByZ(sorted, x) ==
    IF sorted = <<>> THEN <<x>>
    ELSE IF sorted[Len(sorted)].z <= x.z THEN Append(sorted, x)
    ELSE Append(InsertByZ(SubSeq(sorted, 1, Len(sorted) - 1), x), sorted[Len(sorted)])

RECURSIVE SortByZ(_)
SortByZ(sq) ==
    IF sq = <<>> THEN <<>>
    ELSE InsertByZ(SortByZ(SubSeq(sq, 1, Len(sq) - 1)), sq[Len(sq)])

SeqsUpTo(S, n) == UNION {[1..k -> S] : k \in 0..n}

\* Every combination of outcomes, for a directory holding one file.
AllFiles ==
    [read : BOOLEAN, pix : BOOLEAN, ipp : IppValues, sl : SlValues, inum : InValues]
\* Files located by ImagePositionPatient alone, for directories of several files.
PlainFiles ==
    [read : BOOLEAN, pix : BOOLEAN, ipp : {Absent("missing"), Absent("malformed")} \cup ZValues,
     sl : {Absent("missing")}, inum : {Absent("missing")}]

LoadInit ==
    /\ \/ files \in SeqsUpTo(PlainFiles, MaxFiles)
       \/ files \in [1..1 -> AllFiles]
    /\ fidx = 0 /\ slices = <<>> /\ loaded = <<>>
    /\ lpc = "discover"
    /\ TrimIdle /\ ConvertIdle /\ MainIdle
    /\ log = <<>>

\* Lines 58-61: the files are listed and counted.
LoadDiscover ==
    /\ lpc = "discover"
    /\ log' = Append(log, Entry("info", "found", Len(files)))
    /\ lpc' = "loop"
    /\ UNCHANGED <<files, fidx, slices, loaded>>
    /\ UNCHANGED <<tvars, cvars, mvars>>

\* Lines 63-71: one iteration of the loop over the files.
LoadFile ==
    /\ lpc = "loop"
    /\ fidx < Len(files)
    /\ LET n == fidx + 1
           ds == files[n]
           r == GetZPosition(ds)
           skip == Entry("warning", "skipped", n)
           fallback == Entry("warning", "zfallback", n)
       IN  IF ~ds.read \/ r.raised
           THEN /\ log' = Append(log, skip)
                /\ slices' = slices
           ELSE IF ~ds.pix
           THEN /\ log' = (IF r.warn THEN Append(log, fallback) ELSE log) \o <<skip>>
                /\ slices' = slices
           ELSE /\ log' = (IF r.warn THEN Append(log, fallback) ELSE log)
                /\ slices' = Append(slices, [z |-> r.z, file |-> n])
    /\ fidx' = fidx + 1
    /\ UNCHANGED <<files, loaded, lpc>>
    /\ UNCHANGED <<tvars, cvars, mvars>>

\* Lines 73-76: sort by z-position and return the (pixel_array, metadata) pairs.
LoadSort ==
    /\ lpc = "loop"
    /\ fidx = Len(files)
    /\ slices' = SortByZ(slices)
    /\ loaded' = [k \in 1..Len(slices) |-> SortByZ(slices)[k].file]
    /\ log' = Append(log, Entry("info", "sorted", Len(slices)))
    /\ lpc' = "done"
    /\ UNCHANGED <<files, fidx>>
    /\ UNCHANGED <<tvars, cvars, mvars>>

LoadNext == LoadDiscover \/ LoadFile \/ LoadSort

SpecLoad == LoadInit /\ [][LoadNext]_vars

\* ------------------------------------------------------- loader properties
Count(sq, P(_)) == Cardinality({k \in 1..Len(sq) : P(sq[k])})
Decodes(ds) == ds.read /\ ds.pix
DecodedFiles == {n \in 1..Len(files) : Decodes(files[n])}
SkipsOf(n) == Count(log, LAMBDA e : e = Entry("warning", "skipped", n))
FallbacksOf(n) == Count(log, LAMBDA e : e = Entry("warning", "zfallback", n))
ZOfLoaded(k) == slices[k].z

\* C5: the loader returns exactly the slices of the files that decoded, each
\* undecodable file being skipped with one warning, ordered by non-decreasing
\* z-position with ties in discovery order; an input already in that order is
\* returned unchanged.
C5_LoadedExactlyDecodedSorted ==
    lpc = "done" =>
        /\ Len(loaded) = Cardinality(DecodedFiles)
        /\ {loaded[k] : k \in 1..Len(loaded)} = DecodedFiles
        /\ \A n \in (1..Len(files)) \ DecodedFiles : SkipsOf(n) = 1
        /\ \A n \in DecodedFiles : SkipsOf(n) = 0
        /\ \A j, k \in 1..Len(loaded) :
              j < k => \/ ZOfLoaded(j) < ZOfLoaded(k)
                       \/ ZOfLoaded(j) = ZOfLoaded(k) /\ loaded[j] < loaded[k]

\* The z-position the priority order assigns: the first of ImagePositionPatient,
\* SliceLocation and InstanceNumber that is present and well-formed, else 0.0.
PriorityZ(ds) ==
    IF IsNum(ds.ipp) THEN Val(ds.ipp)
    ELSE IF IsNum(ds.sl) THEN Val(ds.sl)
    ELSE IF IsNum(ds.inum) THEN Val(ds.inum)
    ELSE 0
FallsToZero(ds) == ~IsNum(ds.ipp) /\ ~IsNum(ds.sl) /\ ~IsNum(ds.inum)

\* C6: every decoded slice is kept and ordered by the z-position of the strict
\* priority order, a missing or malformed field falling through to the next;
\* the fallback warning is logged exactly once for a slice that ends at 0.0 and
\* never for a slice resolved by one of the three fields.
C6_PriorityResolution ==
    lpc = "done" =>
        \A n \in DecodedFiles :
            /\ \E k \in 1..Len(slices) :
                  slices[k] = [z |-> PriorityZ(files[n]), file |-> n]
            /\ FallbacksOf(n) = (IF FallsToZero(files[n]) THEN 1 ELSE 0)

\* ======================================================================
\* IntensityProcessor.convert and IntensityProcessor._convert_to_suv
\* ======================================================================
\* A slice is a one-pixel image with its metadata.  A grid value is the exact
\* fraction <<numerator, denominator>>.  Metadata fields are <<kind, value>>
\* as above; RadionuclideTotalDose is held in units of DoseScale (Bq per MBq),
\* so that the scale-down by 1e6 is exact.
DoseScale == 1000000

Raw(image) == <<image, 1>>                  \* image.astype(np.float32)

Modalities == {"CT", "PT", "missing"}
WeightValues == {Absent(k) : k \in {"missing", "none", "malformed"}}
                    \cup {Num(w) : w \in 0..MaxWeight}
SeqValues == {"missing", "empty", "present"}
DoseValues == {Absent(k) : k \in {"missing", "none", "malformed"}}
                    \cup {Num(d * DoseScale) : d \in 0..MaxDose}

Outcome(img, level, msg) == [img |-> img, level |-> level, msg |-> msg]

\* _convert_to_suv without the dose == 0 check: the division by zero is not
\* an exception in numpy, so the grid is scaled by an infinite factor.
ConvertToSuvNoZeroCheck(image, md) ==
    IF Kind(md.weight) \in {"missing", "none"}
    THEN Outcome(Raw(image), "warning", "weight")
    ELSE IF md.seq \in {"missing", "empty"}
    THEN Outcome(Raw(image), "warning", "sequence")
    ELSE IF Kind(md.weight) = "malformed"
    THEN Outcome(Raw(image), "error", "exception")
    ELSE IF Kind(md.dose) \in {"missing", "none"}
    THEN Outcome(Raw(image), "warning", "dose")
    ELSE IF Kind(md.dose) = "malformed"
    THEN Outcome(Raw(image), "error", "exception")
    ELSE Outcome(<<image * Val(md.weight), Val(md.dose) \div DoseScale>>, "none", "")

\* Lines 59-88: _convert_to_suv.  The checks run in source order; float() of a
\* malformed weight (line 70) or dose (line 77) raises inside the try and is
\* caught at line 86.
ConvertToSuv(image, md) ==
    IF Kind(md.weight) \in {"missing", "none"}
    THEN Outcome(Raw(image), "warning", "weight")
    ELSE IF md.seq \in {"missing", "empty"}
    THEN Outcome(Raw(image), "warning", "sequence")
    ELSE IF Kind(md.weight) = "malformed"
    THEN Outcome(Raw(image), "error", "exception")
    ELSE IF Kind(md.dose) \in {"missing", "none"}
    THEN Outcome(Raw(image), "warning", "dose")
    ELSE IF Kind(md.dose) = "malformed"
    THEN Outcome(Raw(image), "error", "exception")
    ELSE IF Val(md.dose) \div DoseScale = 0
    THEN Outcome(Raw(image), "warning", "zero")
    ELSE Outcome(<<image * Val(md.weight), Val(md.dose) \div DoseScale>>, "none", "")

\* Lines 100-101: _normalize of a one-pixel grid: (x - min) / (max - min + 1e-8)
\* with min = max = x.
Normalize(img) == <<0, 1>>

AllSlices ==
    [image : 1..MaxPixel, modality : Modalities, weight : WeightValues,
     seq : SeqValues, dose : DoseValues]
\* Slices of a study with complete or weightless metadata, for longer inputs.
PlainSlices ==
    [image : {1}, modality : {"CT", "PT"}, weight : {Absent("missing"), Num(MaxWeight)},
     seq : {"present"}, dose : {Absent("malformed"), Num(0), Num(MaxDose * DoseScale)}]

ConvertInit ==
    /\ \/ inslices \in SeqsUpTo(PlainSlices, MaxSlices)
       \/ inslices \in [1..1 -> AllSlices]
    /\ normalize \in BOOLEAN
    /\ converted_slices = <<>>
    /\ cpc = "loop"
    /\ TrimIdle /\ LoadIdle /\ MainIdle
    /\ log = <<>>

\* Lines 36-45: one iteration of the loop of convert.  metadata.Modality of a
\* record without that attribute, and self._convert_to_hu (which the class
\* does not define), raise AttributeError; convert has no handler.
ConvertSlice ==
    /\ cpc = "loop"
    /\ Len(converted_slices) < Len(inslices)
    /\ LET k == Len(converted_slices) + 1
           md == inslices[k]
           r == ConvertToSuv(md.image, md)
       IN  IF md.modality \in {"missing", "CT"}
           THEN /\ cpc' = "raised"
                /\ UNCHANGED <<converted_slices, log>>
           ELSE /\ converted_slices' =
                       Append(converted_slices,
                              IF normalize THEN Normalize(r.img) ELSE r.img)
                /\ log' = (IF r.level = "none" THEN log
                           ELSE Append(log, Entry(r.level, r.msg, k)))
                /\ cpc' = cpc
    /\ UNCHANGED <<inslices, normalize>>
    /\ UNCHANGED <<tvars, lvars, mvars>>

\* Line 46: return converted_slices.
ConvertReturn ==
    /\ cpc = "loop"
    /\ Len(converted_slices) = Len(inslices)
    /\ cpc' = "done"
    /\ UNCHANGED <<inslices, normalize, converted_slices, log>>
    /\ UNCHANGED <<tvars, lvars, mvars>>

ConvertNext == ConvertSlice \/ ConvertReturn

SpecConvert == ConvertInit /\ [][ConvertNext]_vars

\* ---------------------------------------------------- converter properties
LogOf(k) == SelectSeq(log, LAMBDA e : e.of = k)

\* C7: convert returns one converted grid per input slice, in input order,
\* whatever the modality of each slice, and never raises.
C7_ConvertNeverRaises ==
    /\ cpc # "raised"
    /\ cpc = "done" => Len(converted_slices) = Len(inslices)

WeightAbsent(md) == Kind(md.weight) \in {"missing", "none"}
SeqAbsent(md) == md.seq \in {"missing", "empty"}
DoseAbsent(md) == md.seq = "present" /\ Kind(md.dose) \in {"missing", "none"}
DoseZero(md) == md.seq = "present" /\ IsNum(md.dose) /\ Val(md.dose) \div DoseScale = 0

SkipHolds(md) == WeightAbsent(md) \/ SeqAbsent(md) \/ DoseAbsent(md) \/ DoseZero(md)
\* The first failing condition, in the order weight, sequence, dose, zero.
FirstSkip(md) ==
    IF WeightAbsent(md) THEN "weight"
    ELSE IF SeqAbsent(md) THEN "sequence"
    ELSE IF DoseAbsent(md) THEN "dose"
    ELSE "zero"

Scaled(md) == <<md.image * Val(md.weight), Val(md.dose) \div DoseScale>>

\* What C9 states of the k-th slice, a non-CT slice that has been converted.
SkipIsOneWarning(k) ==
    LET md == inslices[k] IN
    /\ SkipHolds(md) =>
          /\ ~normalize => converted_slices[k] = Raw(md.image)
          /\ LogOf(k) = <<Entry("warning", FirstSkip(md), k)>>
    /\ (~normalize /\ converted_slices[k] # Raw(md.image)) =>
          (~SkipHolds(md) /\ converted_slices[k] = Scaled(md))

Studies ==
    [listed : BOOLEAN, dcm : {"none", "undecodable", "ok"}, modalityOk : BOOLEAN,
     mkdirOk : BOOLEAN, writeOk : BOOLEAN]

\* threshold_values = [0.5, 0.6, 0.7, 0.8], in tenths.
threshold_values == <<5, 6, 7, 8>>

Result(logs, wrote, raised) == [logs |-> logs, wrote |-> wrote, raised |-> raised]

\* Lines 19-33 of dicom_converter.py: save_pet_volume.  The mkdir at line 23
\* precedes the try; np.save is inside it.
SavePetVolume(st, key) ==
    IF ~st.mkdirOk THEN Result(<<>>, FALSE, TRUE)
    ELSE IF ~st.writeOk THEN Result(<<Entry("error", "save", key)>>, FALSE, FALSE)
    ELSE Result(<<Entry("info", "saved", key)>>, TRUE, FALSE)

\* Lines 33-72 of pet_preprocessing.py, for one study.  to_3d_array raises
\* ValueError on an empty list; convert raises AttributeError on a CT slice or
\* a slice without Modality; every exception is logged and re-raised.
PreprocessPetPatientData(st, key) ==
    LET begin == <<Entry("info", "begin", key)>>
        failed == <<Entry("error", "pipeline", key)>>
        shapes == <<Entry("info", "stacked", key), Entry("info", "trimmed", key)>>
        sv == SavePetVolume(st, key)
    IN  IF st.dcm = "none"
        THEN Result(begin \o <<Entry("info", "skipping", key)>>, FALSE, FALSE)
        ELSE IF st.dcm = "undecodable"
        THEN Result(begin \o failed, FALSE, TRUE)
        ELSE IF ~st.modalityOk
        THEN Result(begin \o failed, FALSE, TRUE)
        ELSE IF sv.raised
        THEN Result(begin \o shapes \o failed, FALSE, TRUE)
        ELSE Result(begin \o shapes \o sv.logs \o <<Entry("info", "success", key)>>,
                    sv.wrote, FALSE)

MainInit ==
    /\ studies \in SeqsUpTo(Studies, MaxStudies)
    /\ ti = 1 /\ si = 1 /\ saved = {} /\ attempted = <<>>
    /\ mpc = "loop"
    /\ TrimIdle /\ LoadIdle /\ ConvertIdle
    /\ log = <<>>

\* Lines 110-112: the next patient directory of the current threshold.  An
\* exception of preprocess_pet_patient_data is not handled by main.
MainStudy ==
    /\ mpc = "loop"
    /\ ti <= Len(threshold_values)
    /\ si <= Len(studies)
    /\ LET key == <<ti, si>>
           r == PreprocessPetPatientData(studies[si], key)
       IN  IF ~studies[si].listed
           THEN UNCHANGED <<saved, attempted, log, mpc>>
           ELSE /\ attempted' = Append(attempted, key)
                /\ log' = log \o r.logs
                /\ saved' = (IF r.wrote THEN saved \cup {key} ELSE saved)
                /\ mpc' = (IF r.raised THEN "crashed" ELSE mpc)
    /\ si' = si + 1
    /\ UNCHANGED <<studies, ti>>
    /\ UNCHANGED <<tvars, lvars, cvars>>

\* Lines 95-104: the loop over the thresholds moves to the next value.
MainNextThreshold ==
    /\ mpc = "loop"
    /\ ti <= Len(threshold_values)
    /\ si > Len(studies)
    /\ ti' = ti + 1
    /\ si' = 1
    /\ UNCHANGED <<studies, saved, attempted, mpc, log>>
    /\ UNCHANGED <<tvars, lvars, cvars>>

\* Lines 114-126: the summary.
MainSummary ==
    /\ mpc = "loop"
    /\ ti > Len(threshold_values)
    /\ log' = Append(log, Entry("info", "summary", Cardinality(saved)))
    /\ mpc' = "done"
    /\ UNCHANGED <<studies, ti, si, saved, attempted>>
    /\ UNCHANGED <<tvars, lvars, cvars>>

MainNext == MainStudy \/ MainNextThreshold \/ MainSummary

SpecBatch == MainInit /\ [][MainNext]_vars

\* --------------------------------------------------------- batch properties
Attempted == {attempted[k] : k \in 1..Len(attempted)}
Logged(level, msg, key) == \E k \in 1..Len(log) : log[k] = Entry(level, msg, key)
ErrorsOf(key) == {k \in 1..Len(log) : log[k].level = "error" /\ log[k].of = key}
\* The call for `key` raised: main stopped right after it.
RaisedAt(key) ==
    /\ mpc = "crashed"
    /\ attempted # <<>>
    /\ attempted[Len(attempted)] = key
AllUnits ==
    {<<t, n>> : t \in 1..Len(threshold_values),
                n \in {m \in 1..Len(studies) : studies[m].listed}}

\* C3: a failure of one study never affects the others: once main has stopped,
\* every study of the batch has been handed to the pipeline, under every
\* threshold.
C3_FailureIsolated ==
    mpc \in {"done", "crashed"} => Attempted = AllUnits

\* C4: a study without a decodable DICOM file is skipped with an info-level
\* message: nothing is persisted, no error is logged and nothing is raised.
C4_NoDecodableIsSkipped ==
    \A key \in Attempted :
        studies[key[2]].dcm \in {"none", "undecodable"} =>
            /\ Logged("info", "skipping", key)
            /\ key \notin saved
            /\ ErrorsOf(key) = {}
            /\ ~RaisedAt(key)

ReachesSave(st) == st.dcm = "ok" /\ st.modalityOk
\* C10: a failure of the persistence step, in creating the subdirectory or in
\* writing the file, is caught and logged as an error inside save_pet_volume,
\* and preprocess_pet_patient_data does not raise because of it.
C10_SaveFailureContained ==
    \A key \in Attempted :
        (ReachesSave(studies[key[2]])
            /\ (~studies[key[2]].mkdirOk \/ ~studies[key[2]].writeOk)) =>
            /\ Logged("error", "save", key)
            /\ ~RaisedAt(key)

====
